---- MODULE Spec2Model ----
(***************************************************************************)
(* Model of the Mega da Virada results checker (src/main.js).              *)
(*                                                                         *)
(* Strings are sequences of one-character strings, JSON values are         *)
(* records [t, v] tagged with their JSON type, and a JavaScript number is  *)
(* a record [nan, v] so that NaN is a value of its own.                    *)
(***************************************************************************)
EXTENDS Integers, Sequences, FiniteSets

VARIABLES
    response,            \* what fetch('games.json') will deliver
    pc,                  \* position of init(): "fetch", "render", "ready"
    GAMES,               \* the processed game objects
    drawnNumbers,        \* the Set of selected numbers
    lastBestPrizeLevel,  \* 0, 4, 5 or 6
    filterChecked,       \* filterSwitch.checked
    gamesTableBody,      \* content of the results table body
    totalBetsDisplay,    \* text of the total counter ("" or <<"Total", n>>)
    resultDisplay,       \* text of the selected-numbers display
    winnerBanner,        \* [show, title, counts, games]
    checks               \* the most recent calls of updateWinnerUI

vars == <<response, pc, GAMES, drawnNumbers, lastBestPrizeLevel, filterChecked,
          gamesTableBody, totalBetsDisplay, resultDisplay, winnerBanner, checks>>

-----------------------------------------------------------------------------
(* Bounds *)

GridMax == 7        \* numbers on the grid that the model clicks (60 in the code)
MaxTickets == 2     \* entries of a generated games.json
MaxBets == 2        \* inner sequences of a generated multi-bet entry

-----------------------------------------------------------------------------
(* Strings and JavaScript numbers *)

Digits == <<"0", "1", "2", "3", "4", "5", "6", "7", "8", "9">>

IsDigit(c) == \E i \in 1..10 : Digits[i] = c

DigitVal(c) == (CHOOSE i \in 1..10 : Digits[i] = c) - 1

Num(n) == [nan |-> FALSE, v |-> n]

NaN == [nan |-> TRUE, v |-> 0]

RECURSIVE DecStr(_)
DecStr(n) ==
    IF n < 0 THEN <<"-">> \o DecStr(0 - n)
    ELSE IF n < 10 THEN <<Digits[n + 1]>>
    ELSE DecStr(n \div 10) \o <<Digits[(n % 10) + 1]>>

\* String(x) of a JSON value; a float stands for v + 0.5, and an array is
\* its elements joined by commas, a null element giving the empty string
RECURSIVE ToStr(_)
ToStr(x) ==
    CASE x.t = "int" -> DecStr(x.n)
      [] x.t = "float" -> DecStr(x.f) \o <<".", "5">>
      [] x.t = "str" -> x.s
      [] x.t = "null" -> <<"n", "u", "l", "l">>
      [] x.t = "obj" -> <<"[", "o", "b", "j", "e", "c", "t", "]">>
      [] x.t = "arr" ->
            IF Len(x.a) = 0 THEN <<>>
            ELSE LET first == IF x.a[1].t = "null" THEN <<>> ELSE ToStr(x.a[1])
                 IN  IF Len(x.a) = 1 THEN first
                     ELSE first \o <<",">> \o ToStr([t |-> "arr", a |-> Tail(x.a)])

RECURSIVE SkipSpaces(_)
SkipSpaces(s) ==
    IF Len(s) > 0 /\ Head(s) = " " THEN SkipSpaces(Tail(s)) ELSE s

RECURSIVE DigitPrefix(_)
DigitPrefix(s) ==
    IF Len(s) > 0 /\ IsDigit(Head(s)) THEN <<Head(s)>> \o DigitPrefix(Tail(s))
    ELSE <<>>

RECURSIVE DigitsValue(_)
DigitsValue(d) ==
    IF Len(d) = 0 THEN 0
    ELSE 10 * DigitsValue(SubSeq(d, 1, Len(d) - 1)) + DigitVal(d[Len(d)])

\* parseInt(s, 10) of a string
ParseIntStr(s) ==
    LET t == SkipSpaces(s)
        neg == Len(t) > 0 /\ Head(t) = "-"
        u == IF Len(t) > 0 /\ (Head(t) = "-" \/ Head(t) = "+") THEN Tail(t) ELSE t
        d == DigitPrefix(u)
    IN  IF Len(d) = 0 THEN NaN
        ELSE Num(IF neg THEN 0 - DigitsValue(d) ELSE DigitsValue(d))

\* parseInt(x, 10) of a JSON value
parseInt(x) == ParseIntStr(ToStr(x))

\* the letters that occur in the ticket identifiers of the model
Letters == {"A", "B", "T", "c", "o", "m", "e", "n", "t"}

SanitizeChar(c) ==
    IF IsDigit(c) \/ c = "-" \/ c \in Letters THEN c ELSE "_"

sanitizeForHtml(str) == [i \in 1..Len(str) |-> SanitizeChar(str[i])]

-----------------------------------------------------------------------------
(* The loader *)

CommentKey == <<"_", "c", "o", "m", "m", "e", "n", "t">>

IsArray(x) == x.t = "arr"

\* a canonical array index: such keys are enumerated first, in numeric order
IsIndexKey(k) ==
    /\ Len(k) > 0
    /\ \A i \in 1..Len(k) : IsDigit(k[i])
    /\ (Len(k) = 1 \/ k[1] # "0")

RECURSIVE InsertIndexKey(_, _)
InsertIndexKey(k, ks) ==
    IF ks = <<>> THEN <<k>>
    ELSE IF DigitsValue(k) < DigitsValue(Head(ks)) THEN <<k>> \o ks
    ELSE <<Head(ks)>> \o InsertIndexKey(k, Tail(ks))

RECURSIVE SortedIndexKeys(_)
SortedIndexKeys(doc) ==
    IF doc = <<>> THEN <<>>
    ELSE IF IsIndexKey(Head(doc).key)
         THEN InsertIndexKey(Head(doc).key, SortedIndexKeys(Tail(doc)))
         ELSE SortedIndexKeys(Tail(doc))

\* the order in which for...in visits the keys of the parsed object
ForInKeys(doc) ==
    SortedIndexKeys(doc)
        \o [i \in 1..Len(SelectSeq(doc, LAMBDA e : ~IsIndexKey(e.key)))
              |-> SelectSeq(doc, LAMBDA e : ~IsIndexKey(e.key))[i].key]

ValueOf(doc, k) == (CHOOSE i \in 1..Len(doc) : doc[i].key = k)

Lookup(doc, k) == doc[ValueOf(doc, k)].val

mapParseInt(arr) == [i \in 1..Len(arr.a) |-> parseInt(arr.a[i])]

IsMultiBet(bets) == IsArray(bets) /\ Len(bets.a) > 0 /\ IsArray(bets.a[1])

\* betNumbers.map throws a TypeError when an element of a multi-bet is not an array
EntryThrows(bets) ==
    IsMultiBet(bets) /\ \E i \in 1..Len(bets.a) : ~IsArray(bets.a[i])

\* multi-bet games numbered from 0
MultiBetGamesFromZero(id, bets) ==
    [i \in 1..Len(bets.a) |->
        [id |-> id \o <<"-">> \o DecStr(i - 1),
         sanitizedId |-> sanitizeForHtml(id) \o <<"-">> \o DecStr(i - 1),
         numbers |-> mapParseInt(bets.a[i]),
         source |-> id]]

MultiBetGames(id, bets) ==
    [i \in 1..Len(bets.a) |->
        [id |-> id \o <<"-">> \o DecStr(i),
         sanitizedId |-> sanitizeForHtml(id) \o <<"-">> \o DecStr(i),
         numbers |-> mapParseInt(bets.a[i]),
         source |-> id]]

SingleBetGame(id, bets) ==
    [id |-> id,
     sanitizedId |-> sanitizeForHtml(id),
     numbers |-> mapParseInt(bets),
     source |-> id]

\* the games one iteration of the for...in loop pushes
EntryGames(id, bets) ==
    IF id = CommentKey THEN <<>>
    ELSE IF IsMultiBet(bets) THEN MultiBetGames(id, bets)
    ELSE IF IsArray(bets) THEN <<SingleBetGame(id, bets)>>
    ELSE <<>>

RECURSIVE ProcessKeys(_, _)
ProcessKeys(doc, keys) ==
    IF keys = <<>> THEN <<>>
    ELSE EntryGames(Head(keys), Lookup(doc, Head(keys))) \o ProcessKeys(doc, Tail(keys))

processedGames(doc) == ProcessKeys(doc, ForInKeys(doc))

IsFailure(r) == r.t = "fail"

\* the try block of fetchGames leaves through the catch
LoadThrows(r) ==
    IF IsFailure(r) THEN TRUE
    ELSE \E i \in 1..Len(r.doc) : r.doc[i].key # CommentKey /\ EntryThrows(r.doc[i].val)

-----------------------------------------------------------------------------
(* Rendering *)

PadStart2(s) == IF Len(s) < 2 THEN <<"0">> \o s ELSE s

RECURSIVE SortAsc(_)
SortAsc(S) ==
    IF S = {} THEN <<>>
    ELSE LET m == CHOOSE x \in S : \A y \in S : x.v <= y.v
         IN  <<m>> \o SortAsc(S \ {m})

RECURSIVE JoinDash(_)
JoinDash(ns) ==
    IF Len(ns) = 0 THEN <<>>
    ELSE IF Len(ns) = 1 THEN PadStart2(DecStr(ns[1].v))
    ELSE PadStart2(DecStr(ns[1].v)) \o <<"-">> \o JoinDash(Tail(ns))

renderResultDisplay(drawn) ==
    IF drawn = {} THEN <<"-">> ELSE JoinDash(SortAsc(drawn))

\* game.numbers.filter(num => drawnNumbers.has(num))
filterHits(numbers, drawn) == SelectSeq(numbers, LAMBDA num : num \in drawn)

\* step 1: every game object gets its hitsCount and hits
withHits(games, drawn) ==
    [i \in 1..Len(games) |->
        LET hits == filterHits(games[i].numbers, drawn)
        IN  [id |-> games[i].id,
             sanitizedId |-> games[i].sanitizedId,
             numbers |-> games[i].numbers,
             source |-> games[i].source,
             hitsCount |-> Len(hits),
             hits |-> hits]]

\* gamesToRender.filter(game => game.hitsCount > 0)
filterPositive(games) == SelectSeq(games, LAMBDA game : game.hitsCount > 0)

\* an insertion that puts a game behind the later games of equal hitsCount
RECURSIVE insertBehindEqual(_, _)
insertBehindEqual(g, sorted) ==
    IF sorted = <<>> THEN <<g>>
    ELSE IF Head(sorted).hitsCount < g.hitsCount THEN <<g>> \o sorted
    ELSE <<Head(sorted)>> \o insertBehindEqual(g, Tail(sorted))

\* the stable sort with comparator (a, b) => b.hitsCount - a.hitsCount
RECURSIVE insertByHits(_, _)
insertByHits(g, sorted) ==
    IF sorted = <<>> THEN <<g>>
    ELSE IF Head(sorted).hitsCount <= g.hitsCount THEN <<g>> \o sorted
    ELSE <<Head(sorted)>> \o insertByHits(g, Tail(sorted))

RECURSIVE sortByHits(_)
sortByHits(games) ==
    IF games = <<>> THEN <<>>
    ELSE insertByHits(Head(games), sortByHits(Tail(games)))

\* step 2, on the games that carry their hits
gamesToRender(games, filter) ==
    IF filter THEN sortByHits(filterPositive(games)) ELSE games

Tiers == {4, 5, 6}

EmptyTally ==
    [prizeCounts |-> [t \in Tiers |-> 0],
     winningGameIds |-> [t \in Tiers |-> <<>>],
     bestPrizeThisCheck |-> 0]

\* a tally whose best prize is the prize of the last winner met
RECURSIVE tallyLastWins(_, _)
tallyLastWins(games, acc) ==
    IF games = <<>> THEN acc
    ELSE LET h == Head(games).hitsCount
         IN  IF h >= 4
             THEN tallyLastWins(Tail(games),
                    [prizeCounts |-> [acc.prizeCounts EXCEPT ![h] = @ + 1],
                     winningGameIds |->
                        [acc.winningGameIds EXCEPT ![h] = Append(@, Head(games).id)],
                     bestPrizeThisCheck |-> h])
             ELSE tallyLastWins(Tail(games), acc)

\* step 3: the tally of the forEach over gamesToRender
RECURSIVE tally(_, _)
tally(games, acc) ==
    IF games = <<>> THEN acc
    ELSE LET h == Head(games).hitsCount
         IN  IF h >= 4
             THEN tally(Tail(games),
                    [prizeCounts |-> [acc.prizeCounts EXCEPT ![h] = @ + 1],
                     winningGameIds |->
                        [acc.winningGameIds EXCEPT ![h] = Append(@, Head(games).id)],
                     bestPrizeThisCheck |->
                        IF h > acc.bestPrizeThisCheck THEN h ELSE acc.bestPrizeThisCheck])
             ELSE tally(Tail(games), acc)

\* winningGameIds[hitsCount].push throws a TypeError when hitsCount is not a tier
renderThrows(shown) == \E i \in 1..Len(shown) : shown[i].hitsCount > 6

tableRows(games) ==
    [i \in 1..Len(games) |->
        [id |-> games[i].id,
         numbers |-> games[i].numbers,
         hitsCount |-> games[i].hitsCount,
         hits |-> games[i].hits]]

ErrorMessage == [kind |-> "error", rows |-> <<>>]

Placeholder == [kind |-> "placeholder", rows |-> <<>>]

tableBody(games) ==
    IF Len(games) = 0 THEN Placeholder
    ELSE [kind |-> "rows", rows |-> tableRows(games)]

-----------------------------------------------------------------------------
(* The winner banner and the celebration *)

HiddenBanner ==
    [show |-> FALSE, title |-> 0,
     counts |-> [t \in Tiers |-> 0], games |-> [t \in Tiers |-> <<>>]]

\* a celebration that is triggered again at the same level
celebratesAgain(best, last) == best >= last

\* the celebration is triggered only above the previous level
celebrates(best, last) == best > last

\* checks is a window of fixed length over the calls of updateWinnerUI
NoCheck == [best |-> 0 - 1, prev |-> 0 - 1, fired |-> FALSE]

remember(log, entry) == Append(Tail(log), entry)

\* the new lastBestPrizeLevel, banner and log after updateWinnerUI
updateWinnerUI(t, last, banner, log) ==
    IF t.bestPrizeThisCheck < 4
    THEN [last |-> 0,
          banner |-> [banner EXCEPT !.show = FALSE],
          log |-> remember(log, [best |-> t.bestPrizeThisCheck, prev |-> last,
                                 fired |-> FALSE])]
    ELSE [last |-> t.bestPrizeThisCheck,
          banner |-> [show |-> TRUE, title |-> t.bestPrizeThisCheck,
                      counts |-> t.prizeCounts, games |-> t.winningGameIds],
          log |-> remember(log, [best |-> t.bestPrizeThisCheck, prev |-> last,
                                 fired |-> celebrates(t.bestPrizeThisCheck, last)])]

\* renderGamesTable() run with the selection drawn and the switch at filter
renderGamesTable(drawn, filter) ==
    LET counted == withHits(GAMES, drawn)
        shown == gamesToRender(counted, filter)
        u == updateWinnerUI(tally(shown, EmptyTally), lastBestPrizeLevel,
                            winnerBanner, checks)
    IN  /\ GAMES' = counted
        /\ IF renderThrows(shown)
           THEN UNCHANGED <<gamesTableBody, lastBestPrizeLevel, winnerBanner, checks>>
           ELSE /\ gamesTableBody' = tableBody(shown)
                /\ lastBestPrizeLevel' = u.last
                /\ winnerBanner' = u.banner
                /\ checks' = u.log

updateAllUI(drawn) ==
    /\ resultDisplay' = renderResultDisplay(drawn)
    /\ renderGamesTable(drawn, filterChecked)

-----------------------------------------------------------------------------
(* Startup *)

fetchGamesCatch ==
    /\ pc = "fetch"
    /\ LoadThrows(response)
    /\ gamesTableBody' = ErrorMessage
    /\ pc' = "render"
    /\ UNCHANGED <<response, GAMES, drawnNumbers, lastBestPrizeLevel, filterChecked,
                   totalBetsDisplay, resultDisplay, winnerBanner, checks>>

fetchGamesOk ==
    /\ pc = "fetch"
    /\ ~LoadThrows(response)
    /\ GAMES' = processedGames(response.doc)
    /\ totalBetsDisplay' = <<"Total", Len(processedGames(response.doc))>>
    /\ pc' = "render"
    /\ UNCHANGED <<response, drawnNumbers, lastBestPrizeLevel, filterChecked,
                   gamesTableBody, resultDisplay, winnerBanner, checks>>

fetchGames == fetchGamesOk \/ fetchGamesCatch

\* the rest of init(): renderNumberGrid, renderGamesTable, addEventListeners
init ==
    /\ pc = "render"
    /\ renderGamesTable(drawnNumbers, filterChecked)
    /\ pc' = "ready"
    /\ UNCHANGED <<response, drawnNumbers, filterChecked, totalBetsDisplay,
                   resultDisplay>>

\* the switch is clicked while no listener is attached to it yet
filterSwitchEarly ==
    /\ pc # "ready"
    /\ filterChecked' = ~filterChecked
    /\ UNCHANGED <<response, pc, GAMES, drawnNumbers, lastBestPrizeLevel,
                   gamesTableBody, totalBetsDisplay, resultDisplay, winnerBanner,
                   checks>>

-----------------------------------------------------------------------------
(* Event handlers *)

\* toggle that makes room for a 7th number by dropping a selected one
toggleEvict(drawn, num) ==
    IF num \in drawn THEN drawn \ {num}
    ELSE IF Cardinality(drawn) < 6 THEN drawn \cup {num}
    ELSE (drawn \ {CHOOSE x \in drawn : TRUE}) \cup {num}

\* toggle without the limit of 6 numbers
toggleUnlimited(drawn, num) ==
    IF num \in drawn THEN drawn \ {num} ELSE drawn \cup {num}

\* the change of drawnNumbers made by a click on the button of num
toggle(drawn, num) ==
    IF num \in drawn THEN drawn \ {num}
    ELSE IF Cardinality(drawn) < 6 THEN drawn \cup {num}
    ELSE drawn

handleGridClick(n) ==
    /\ pc = "ready"
    /\ drawnNumbers' = toggle(drawnNumbers, ParseIntStr(DecStr(n)))
    /\ updateAllUI(drawnNumbers')
    /\ UNCHANGED <<response, pc, filterChecked, totalBetsDisplay>>

handleClear ==
    /\ pc = "ready"
    /\ drawnNumbers' = {}
    /\ updateAllUI(drawnNumbers')
    /\ UNCHANGED <<response, pc, filterChecked, totalBetsDisplay>>

filterSwitchChange ==
    /\ pc = "ready"
    /\ filterChecked' = ~filterChecked
    /\ renderGamesTable(drawnNumbers, filterChecked')
    /\ UNCHANGED <<response, pc, drawnNumbers, totalBetsDisplay, resultDisplay>>

-----------------------------------------------------------------------------
(* The contents of games.json *)

I(n) == [t |-> "int", n |-> n]

Str(s) == [t |-> "str", s |-> s]

Arr(s) == [t |-> "arr", a |-> s]

Null == [t |-> "null"]

Obj == [t |-> "obj", o |-> <<>>]

Ints(s) == Arr([i \in 1..Len(s) |-> I(s[i])])

Entry(k, x) == [key |-> k, val |-> x]

Doc(entries) == [t |-> "doc", doc |-> entries]

\* fetch rejects, the HTTP status is not OK, or the body is not JSON
Failure(why) == [t |-> "fail", why |-> why]

Failures == {Failure("rejected"), Failure("status"), Failure("syntax")}

KeyA == <<"A">>

KeyB == <<"B">>

KeyT == <<"T">>

KeyT1 == <<"T", "-", "1">>

Key7 == <<"7">>

\* two bets with repeated numbers
DocRepeats ==
    Doc(<<Entry(KeyA, Arr(<<Ints(<<2, 2, 3, 1, 1, 1>>), Ints(<<2, 1, 1, 1, 1, 7>>)>>))>>)

\* a commented file with a multi-bet and a single bet
DocValid ==
    Doc(<<Entry(CommentKey, Str(<<"c">>)),
          Entry(KeyB, Ints(<<7, 1, 2, 3, 4, 5>>)),
          Entry(KeyT, Arr(<<Ints(<<1, 2, 3, 4, 5, 6>>), Ints(<<2, 3, 4, 5, 6, 7>>)>>))>>)

\* bets that are not sequences of 6 integers
DocMalformed ==
    Doc(<<Entry(KeyA, Arr(<<I(1), Str(<<"x">>), Null, I(4), I(5), I(6)>>)),
          Entry(KeyB, Ints(<<1, 2, 3>>))>>)

DocEmpty == Doc(<<>>)

Responses == Failures \cup {DocRepeats, DocValid, DocMalformed, DocEmpty}

-----------------------------------------------------------------------------
(* Specification of the whole page *)

InitWith(r, window) ==
    /\ response = r
    /\ pc = "fetch"
    /\ GAMES = <<>>
    /\ drawnNumbers = {}
    /\ lastBestPrizeLevel = 0
    /\ filterChecked = FALSE
    /\ gamesTableBody = [kind |-> "initial", rows |-> <<>>]
    /\ totalBetsDisplay = <<>>
    /\ resultDisplay = <<>>
    /\ winnerBanner = HiddenBanner
    /\ checks = window

\* only the latest check is kept
Init == \E r \in Responses : InitWith(r, <<NoCheck>>)

Next ==
    \/ fetchGames
    \/ init
    \/ filterSwitchEarly
    \/ \E n \in 1..GridMax : handleGridClick(n)
    \/ handleClear
    \/ filterSwitchChange

Spec == Init /\ [][Next]_vars

-----------------------------------------------------------------------------
(* Specification of the announcement gating: checks keeps as many calls as *)
(* the longest run of best tiers the claims speak of                       *)

\* the best tiers 4, 4, 6, 5, which the claims let follow a best tier of 0
ExampleTiers == <<4, 4, 6, 5>>

GateResponses == {DocRepeats, Failure("rejected")}

InitGate ==
    \E r \in GateResponses : InitWith(r, [i \in 1..Len(ExampleTiers) |-> NoCheck])

SpecGate == InitGate /\ [][Next]_vars

-----------------------------------------------------------------------------
(* Specification of the loader: startup over generated files *)

RECURSIVE SeqsUpTo(_, _)
SeqsUpTo(S, n) ==
    IF n = 0 THEN {<<>>}
    ELSE SeqsUpTo(S, n - 1)
            \cup {Append(s, x) : s \in {q \in SeqsUpTo(S, n - 1) : Len(q) = n - 1}, x \in S}

BetA == Ints(<<1, 10, 23, 44, 51, 60>>)

BetB == Ints(<<5, 12, 25, 33, 48, 57>>)

BetShort == Ints(<<1, 2, 3>>)

BetCoerced == Arr(<<I(1), Str(<<"x">>), Null, [t |-> "float", f |-> 4], I(5), I(6)>>)

BetStrings ==
    Arr(<<Str(<<"0", "1">>), Str(<<"1", "0">>), Str(<<"2", "3", "x">>),
          Str(<<" ", "4", "4">>), Str(<<"-", "5">>), Str(<<"6", "0">>)>>)

FlatBets == {BetA, BetShort, BetCoerced, BetStrings, Arr(<<>>)}

\* the i-th bet of a generated multi-bet
BetAt(i) == Ints(<<i, 10 + i, 20 + i, 30 + i, 40 + i, 50 + i>>)

MultiBets ==
    {Arr([i \in 1..n |-> BetAt(i)]) : n \in 1..MaxBets} \cup {Arr(<<BetB, BetShort>>)}

\* a sequence that mixes bets and numbers
MixedBets == {Arr(<<BetA, I(7)>>), Arr(<<I(7), BetA>>)}

NonSequences == {Null, Obj}

EntryValues == FlatBets \cup MultiBets \cup MixedBets \cup NonSequences

Keys == {KeyT, KeyT1, Key7, CommentKey}

DistinctKeys(ks) == \A i, j \in 1..Len(ks) : i # j => ks[i] # ks[j]

KeySeqs == {ks \in SeqsUpTo(Keys, MaxTickets) : DistinctKeys(ks)}

GeneratedDoc(ks, vs) == Doc([i \in 1..Len(ks) |-> Entry(ks[i], vs[i])])

InitLoader ==
    \/ \E r \in Failures : InitWith(r, <<NoCheck>>)
    \/ \E ks \in KeySeqs : \E vs \in [1..Len(ks) -> EntryValues] :
            InitWith(GeneratedDoc(ks, vs), <<NoCheck>>)

NextLoader == fetchGames \/ init

SpecLoader == InitLoader /\ [][NextLoader]_vars

-----------------------------------------------------------------------------
(* Claims about the selection *)

Clicked(n) == ParseIntStr(DecStr(n))

\* C1: the selection never has more than 6 members, and a click on a number
\* that is not selected while 6 numbers are selected leaves it unchanged.
C1_AtMostSix ==
    /\ [](Cardinality(drawnNumbers) <= 6)
    /\ [][\A n \in 1..GridMax :
            (handleGridClick(n) /\ Clicked(n) \notin drawnNumbers
                /\ Cardinality(drawnNumbers) = 6)
            => drawnNumbers' = drawnNumbers]_vars

C1_Witness == pc = "ready" /\ Cardinality(drawnNumbers) = 6

\* C7: after a click on n has taken the selection S to S2, a second click on
\* n gives S again; a click on a selected number removes it at any size.
C7_ToggleTwice ==
    [][\A n \in 1..GridMax :
        handleGridClick(n) =>
            /\ toggle(drawnNumbers', Clicked(n)) = drawnNumbers
            /\ Clicked(n) \in drawnNumbers
                  => drawnNumbers' = drawnNumbers \ {Clicked(n)}]_vars

C7_Witness ==
    /\ pc = "ready"
    /\ Cardinality(drawnNumbers) = 5
    /\ checks[Len(checks)].best = 5

-----------------------------------------------------------------------------
(* Claims about the announcement gating *)

Real(i) == checks[i] # NoCheck

BestsFrom(i, n) == [k \in 1..n |-> checks[i + k - 1].best]

FiredFrom(i, n) == [k \in 1..n |-> checks[i + k - 1].fired]

\* C2: a recomputation celebrates exactly when its best tier is at least 4
\* and above lastBestPrizeLevel (so never at a best tier of 0); it does not
\* celebrate when its best tier is at most the tier announced by the
\* recomputation before it; lastBestPrizeLevel is 0 before a recomputation
\* exactly when the one before it had the best tier 0; and when the best
\* tiers 4, 4, 6, 5 follow a best tier of 0, the first 4 and the 6 celebrate
\* and the second 4 and the 5 do not.
C2_Gating ==
    /\ \A i \in 1..Len(checks) :
          Real(i) => (checks[i].fired
                        <=> (checks[i].best >= 4 /\ checks[i].best > checks[i].prev))
    /\ \A i \in 2..Len(checks) :
          Real(i - 1) =>
              /\ checks[i].prev = 0 <=> checks[i - 1].best = 0
              /\ (checks[i - 1].best >= 4 /\ checks[i].best <= checks[i - 1].best)
                    => ~checks[i].fired
    /\ (checks[1].prev = 0 /\ BestsFrom(1, Len(ExampleTiers)) = ExampleTiers)
          => FiredFrom(1, Len(ExampleTiers)) = <<TRUE, FALSE, TRUE, FALSE>>

C2_Witness ==
    /\ checks[1].prev = 0
    /\ lastBestPrizeLevel = 5
    /\ BestsFrom(1, Len(ExampleTiers)) = ExampleTiers
    /\ FiredFrom(1, Len(ExampleTiers)) = <<TRUE, FALSE, TRUE, FALSE>>

\* C10: after a recomputation whose best tier is at least 4 and below
\* lastBestPrizeLevel, lastBestPrizeLevel has kept its value; for the best
\* tiers 6, 5, 6 the second 6 does not celebrate.
C10_KeepsHighest ==
    /\ LET e == checks[Len(checks)]
       IN  (e # NoCheck /\ e.best >= 4 /\ e.best < e.prev)
               => lastBestPrizeLevel = e.prev
    /\ \A i \in 1..(Len(checks) - 2) :
          BestsFrom(i, 3) = <<6, 5, 6>> => ~checks[i + 2].fired

-----------------------------------------------------------------------------
(* Claims about startup *)

\* C3: once startup has finished after a failed load, the table shows the
\* load-error message.
C3_ErrorStays ==
    (IsFailure(response) /\ pc = "ready") => gamesTableBody = ErrorMessage

-----------------------------------------------------------------------------
(* Claims about the evaluation *)

HitPositions(g) == {j \in 1..Len(g.numbers) : g.numbers[j] \in drawnNumbers}

\* the position in g.numbers of the k-th number that is in the selection
HitPosition(g, k) ==
    CHOOSE j \in HitPositions(g) :
        Cardinality({i \in HitPositions(g) : i <= j}) = k

GamesWith(t) == {i \in 1..Len(GAMES) : GAMES[i].hitsCount = t}

BestTier ==
    IF GamesWith(6) # {} THEN 6
    ELSE IF GamesWith(5) # {} THEN 5
    ELSE IF GamesWith(4) # {} THEN 4
    ELSE 0

\* C5: after a recomputation every game has hits = the numbers of the game
\* that are selected, in the order of the game, and hitsCount = their number,
\* at most 6; the announced count of a tier is the number of games with that
\* many hits, and the best tier is the largest tier with a game, or 0.
C5_Evaluation ==
    pc = "ready" =>
        /\ \A i \in 1..Len(GAMES) :
              /\ GAMES[i].hitsCount = Cardinality(HitPositions(GAMES[i]))
              /\ GAMES[i].hitsCount \in 0..6
              /\ Len(GAMES[i].hits) = GAMES[i].hitsCount
              /\ \A k \in 1..Len(GAMES[i].hits) :
                    GAMES[i].hits[k] = GAMES[i].numbers[HitPosition(GAMES[i], k)]
        /\ checks[Len(checks)].best = BestTier
        /\ winnerBanner.show <=> BestTier >= 4
        /\ BestTier >= 4 =>
              /\ winnerBanner.title = BestTier
              /\ \A t \in Tiers : winnerBanner.counts[t] = Cardinality(GamesWith(t))

C5_Witness ==
    /\ pc = "ready"
    /\ winnerBanner.show
    /\ winnerBanner.counts[6] = 1
    /\ winnerBanner.counts[5] = 2
    /\ \E i \in 1..Len(GAMES) : GAMES[i].hits = GAMES[i].numbers

Row(g) == [id |-> g.id, numbers |-> g.numbers, hitsCount |-> g.hitsCount, hits |-> g.hits]

Positive == {i \in 1..Len(GAMES) : GAMES[i].hitsCount > 0}

\* the games with a hit that come before game i in the filtered table
Ahead(i) ==
    {j \in Positive :
        \/ GAMES[j].hitsCount > GAMES[i].hitsCount
        \/ GAMES[j].hitsCount = GAMES[i].hitsCount /\ j < i}

\* C6: with the filter on the table holds exactly the games with a hit, once
\* each, by hitsCount descending and in load order among equal hitsCount;
\* with the filter off it holds all games in load order.
C6_Filtering ==
    pc = "ready" =>
        IF filterChecked
        THEN /\ Len(gamesTableBody.rows) = Cardinality(Positive)
             /\ \A i \in Positive :
                    gamesTableBody.rows[Cardinality(Ahead(i)) + 1] = Row(GAMES[i])
        ELSE gamesTableBody.rows = [i \in 1..Len(GAMES) |-> Row(GAMES[i])]

C6_Witness ==
    /\ pc = "ready"
    /\ filterChecked
    /\ Len(GAMES) = 3
    /\ GAMES[1].hitsCount = 1
    /\ GAMES[2].hitsCount = 1
    /\ GAMES[3].hitsCount = 2
    /\ gamesTableBody.rows = <<Row(GAMES[3]), Row(GAMES[1]), Row(GAMES[2])>>

-----------------------------------------------------------------------------
(* Claims about the ids of the winner announcement *)

IdsOf(games) == [i \in 1..Len(games) |-> games[i].id]

HasTier(g) == g.hitsCount >= 4

\* the ids of the games with t hits, in load order
LoadOrderIds(t) == IdsOf(SelectSeq(GAMES, LAMBDA g : g.hitsCount = t))

\* the ids of the winning games in the order in which step 3 meets them
TallyOrder(filter) == IdsOf(SelectSeq(gamesToRender(GAMES, filter), HasTier))

\* the filter changes the order in which the winning games are tallied
TallyOrderDiffers == TallyOrder(TRUE) # TallyOrder(FALSE)

\* C11 as amended: in both display modes each winningGameIds list of the
\* announcement holds the ids of the games with that many hits in load
\* order, and switching the filter leaves the lists of a shown announcement
\* as they were.
C11_SameInBothModes ==
    /\ []((pc = "ready" /\ winnerBanner.show)
            => \A t \in Tiers : winnerBanner.games[t] = LoadOrderIds(t))
    /\ [][(filterSwitchChange /\ winnerBanner.show)
            => winnerBanner'.games = winnerBanner.games]_vars

\* the filter is on, it has reordered the winning games, and a tier lists
\* two of them
C11_Witness ==
    /\ pc = "ready"
    /\ filterChecked
    /\ winnerBanner.show
    /\ TallyOrderDiffers
    /\ \E t \in Tiers : Len(winnerBanner.games[t]) >= 2

\* C11 as stated: the winningGameIds lists depend on the display mode, so
\* switching the filter while it changes the order in which the winning
\* games are tallied changes the lists of the announcement.
C11_ModeDependent ==
    [][(filterSwitchChange /\ winnerBanner.show /\ TallyOrderDiffers)
        => winnerBanner'.games # winnerBanner.games]_vars

-----------------------------------------------------------------------------
(* Claims about the loader *)

Loaded == totalBetsDisplay # <<>>

GamesOf(k) == SelectSeq(GAMES, LAMBDA g : g.source = k)

IsSeqOfSeqs(x) ==
    x.t = "arr" /\ Len(x.a) >= 1 /\ \A i \in 1..Len(x.a) : x.a[i].t = "arr"

IsFlatSeq(x) == x.t = "arr" /\ \A i \in 1..Len(x.a) : x.a[i].t # "arr"

\* nums has one number per element, and the integer elements unchanged
SameNumbers(nums, elems) ==
    /\ Len(nums) = Len(elems)
    /\ \A j \in 1..Len(elems) : elems[j].t = "int" => nums[j] = Num(elems[j].n)

\* C4: the _comment entry gives no game; a multi-bet entry T of N sequences
\* gives the N games T-1 .. T-N of source T, in order; a flat entry T gives
\* the one game T of source T; the numbers are those of the entry, in order.
C4_Normalization ==
    Loaded =>
        /\ \A i \in 1..Len(GAMES) :
              \E k \in 1..Len(response.doc) :
                  response.doc[k].key = GAMES[i].source /\ GAMES[i].source # CommentKey
        /\ \A k \in 1..Len(response.doc) :
              LET T == response.doc[k].key
                  bets == response.doc[k].val
                  made == GamesOf(T)
              IN  /\ T = CommentKey => made = <<>>
                  /\ (T # CommentKey /\ IsSeqOfSeqs(bets)) =>
                        /\ Len(made) = Len(bets.a)
                        /\ \A n \in 1..Len(bets.a) :
                              /\ made[n].id = T \o <<"-", Digits[n + 1]>>
                              /\ SameNumbers(made[n].numbers, bets.a[n].a)
                  /\ (T # CommentKey /\ IsFlatSeq(bets)) =>
                        /\ Len(made) = 1
                        /\ made[1].id = T
                        /\ SameNumbers(made[1].numbers, bets.a)

C4_Witness ==
    /\ pc = "ready"
    /\ Loaded
    /\ Len(response.doc) = 2
    /\ response.doc[1].key = CommentKey
    /\ IsSeqOfSeqs(response.doc[2].val)
    /\ Len(GAMES) = 2
    /\ GAMES[2].id = response.doc[2].key \o <<"-", "2">>

\* C8: no two games have the same id.
C8_DistinctIds ==
    \A i, j \in 1..Len(GAMES) : i # j => GAMES[i].id # GAMES[j].id

ValidBet(x) ==
    x.t = "arr" /\ Len(x.a) = 6 /\ \A j \in 1..Len(x.a) : x.a[j].t = "int"

ValidEntryValue(x) ==
    ValidBet(x) \/ (IsSeqOfSeqs(x) /\ \A i \in 1..Len(x.a) : ValidBet(x.a[i]))

HasMalformedEntry ==
    /\ response.t = "doc"
    /\ \E k \in 1..Len(response.doc) :
          response.doc[k].key # CommentKey /\ ~ValidEntryValue(response.doc[k].val)

ValidNumbers(g) ==
    Len(g.numbers) = 6 /\ \A j \in 1..Len(g.numbers) : ~g.numbers[j].nan

\* C9: when an entry is not a bet of 6 integers or a sequence of such bets,
\* fetchGames ends with the load error shown, and no game with coerced,
\* missing or invalid numbers is in GAMES.
C9_MalformedReported ==
    (HasMalformedEntry /\ pc # "fetch") =>
        /\ pc = "render" => gamesTableBody = ErrorMessage
        /\ \A i \in 1..Len(GAMES) : ValidNumbers(GAMES[i])

====
